---- MODULE Spec2Model ----
(***************************************************************************)
(* Career Navigator AI (src/app.py): the Search branch of main().          *)
(*                                                                         *)
(* One script run handles one click of the Search button: the query is     *)
(* validated, the API key is loaded, init_pinecone() polls                 *)
(* pinecone.list_indexes() until the index is listed or a timeout passes   *)
(* (memoised by st.cache_resource), search_vectors() embeds the query and  *)
(* queries the index, format_result() shapes every match and the records   *)
(* are rendered one by one.                                                *)
(*                                                                         *)
(* Time is in seconds and is measured from the start of the current        *)
(* script run.  Scores are fixed-point numbers in units of 10^-6.          *)
(***************************************************************************)
EXTENDS Integers, Sequences, FiniteSets, TLC

VARIABLES
    pc,          \* position of the script run: "idle", "init", "poll", "break", "ready"
    cache,       \* st.cache_resource of init_pinecone: the api keys memoised
    query,       \* st.text_input value of the run (a sequence of characters)
    category,    \* st.radio value of the run
    top_k,       \* st.slider value of the run
    now,         \* time.time() as init_pinecone reads it, seconds since the run started
    start_time,  \* init_pinecone's local start_time
    appearAt,    \* remote service: the listing call from which the index is listed (0: never)
    indexData,   \* remote service: the ranked matches the index holds for the query
    listCalls,   \* pinecone.list_indexes() calls made by the run
    embedCalls,  \* model.feature_extraction() calls made by the run
    queryCalls,  \* index.query() calls made by the run
    lastResp,    \* what the last listing call of the run returned or raised
    firstErr,    \* the error raised by the first failing listing call of the run
    everListed,  \* some listing call has returned a listing with the index in it
    wasCached,   \* init_pinecone had returned for the key before the run called it
    matches,     \* what search_vectors returned
    delivered,   \* the records rendered to the page so far
    outcome,     \* how the run ended ("none" while it is running)
    errText      \* the error text shown by st.error

vars == <<pc, cache, query, category, top_k, now, start_time, appearAt, indexData,
          listCalls, embedCalls, queryCalls, lastResp, firstErr, everListed,
          wasCached, matches, delivered, outcome, errText>>

----------------------------------------------------------------------------
(* Bounds of the model *)

MaxLatency == 1   \* a listing call takes 0..MaxLatency seconds
MaxAppear == 4    \* the index becomes visible at listing call 1..MaxAppear, or never
MaxMatches == 2   \* the index holds at most MaxMatches matches for a query

(* Program constants *)

timeout_seconds == 30
SleepSeconds == 1
MinTopK == 1
MaxTopK == 10
DefaultTopK == 5

INDEX_NAME == "career-navigator-index"
API_KEY == "pinecone-key"
Categories == {"all", "resume", "job"}
ErrIds == {"e1", "e2"}

----------------------------------------------------------------------------
(* Text: strings the code inspects are sequences of characters *)

Whitespace == {" ", "\t", "\n"}

RECURSIVE LStrip(_)
LStrip(s) ==
    IF s /= <<>> /\ Head(s) \in Whitespace THEN LStrip(Tail(s)) ELSE s

RECURSIVE RStrip(_)
RStrip(s) ==
    IF s /= <<>> /\ s[Len(s)] \in Whitespace
    THEN RStrip(SubSeq(s, 1, Len(s) - 1))
    ELSE s

\* str.strip()
Strip(s) == RStrip(LStrip(s))

\* a variant that tests the query without stripping it
IsBlankMutant(q) == q = <<>>

\* `not query.strip()` (line 105)
IsBlank(q) == Strip(q) = <<>>

UpperChar(c) ==
    CASE c = "j" -> "J" [] c = "o" -> "O" [] c = "b" -> "B"
      [] c = "r" -> "R" [] c = "e" -> "E" [] c = "s" -> "S"
      [] c = "u" -> "U" [] c = "m" -> "M"
      [] OTHER -> c

\* str.upper()
Upper(s) == [i \in 1..Len(s) |-> UpperChar(s[i])]

Queries ==
    { <<>>, <<" ", " ">>, <<"\t">>,
      <<"m", "l">>, <<" ", "j", "o", "b", " ">> }

----------------------------------------------------------------------------
(* RawMatch and ResultRecord                                               *)
(* A metadata value is absent, a string or a number.  label and text carry *)
(* their value as an opaque string, source as a sequence of characters.    *)

Str(v) == [k |-> "str", v |-> v]
Num(v) == [k |-> "num", v |-> v]
Absent == [k |-> "absent", v |-> ""]
AbsentSeq == [k |-> "absent", v |-> <<>>]

JOB == <<"j", "o", "b">>
RESUME == <<"r", "e", "s", "u", "m", "e">>

Score(x) == [has |-> TRUE, v |-> x]
NoScore == [has |-> FALSE, v |-> 0]

RawMatch(score, hasMeta, label, source, text) ==
    [score |-> score, hasMeta |-> hasMeta, label |-> label, source |-> source,
     text |-> text]

\* the matches the remote index may hold
RawMatches ==
    { RawMatch(Score(910000), TRUE, Str("A"), Str(JOB), Str("t1")),
      RawMatch(Score(750000), TRUE, Str("B"), Str(JOB), Str("t2")),
      RawMatch(Score(910000), TRUE, Str("C"), Str(RESUME), Str("t3")),
      RawMatch(Score(123456), TRUE, Absent, AbsentSeq, Absent),
      RawMatch(NoScore, FALSE, Absent, AbsentSeq, Absent),
      RawMatch(Score(750000), TRUE, Num("3"), Str(RESUME), Num("42")),
      RawMatch(Score(910000), TRUE, Str("D"), Num(<<"7">>), Str("t4")) }

SeqsUpTo(S, n) == UNION { [1..m -> S] : m \in 0..n }

\* dict.get(key, default)
Get(value, default) == IF value.k = "absent" THEN default ELSE value

\* match.get("metadata", {}) (line 85)
Meta(m) ==
    IF m.hasMeta
    THEN [label |-> m.label, source |-> m.source, text |-> m.text]
    ELSE [label |-> Absent, source |-> AbsentSeq, text |-> Absent]

\* round(x, 4), x in units of 10^-6, ties to even
Round4(x) ==
    LET r == x % 100
        b == x - r
    IN  IF r > 50 THEN b + 100
        ELSE IF r < 50 THEN b
        ELSE IF (b \div 100) % 2 = 0 THEN b ELSE b + 100

\* format_result raises: .upper() of a value that is no string (line 88)
FormatRaises(m) == Get(Meta(m).source, Str(<<>>)).k /= "str"

\* format_result (lines 84-91), where it does not raise
format_result(m) ==
    LET meta == Meta(m)
        source == Get(meta.source, Str(<<>>))
    IN  [label |-> Get(meta.label, Str("Unknown")),
         source |-> Str(Upper(source.v)),
         text |-> Get(meta.text, Str("")),
         score |-> Round4(IF m.score.has THEN m.score.v ELSE 0)]

\* rendering a record raises: .replace() of a text that is no string (line 134)
RenderRaises(r) == r.text.k /= "str"

RECURSIVE RenderedPrefix(_)
\* the records the loop of lines 130-136 renders before one raises
RenderedPrefix(rs) ==
    IF rs = <<>> \/ RenderRaises(Head(rs)) THEN <<>>
    ELSE <<Head(rs)>> \o RenderedPrefix(Tail(rs))

----------------------------------------------------------------------------
(* search_vectors and the remote index                                     *)

NoFilter == [field |-> "", eq |-> <<>>]

\* filter_expr (lines 66-71)
FilterExpr(c) ==
    IF c = "resume" THEN [field |-> "source", eq |-> RESUME]
    ELSE IF c = "job" THEN [field |-> "source", eq |-> JOB]
    ELSE NoFilter

Satisfies(m, f) ==
    \/ f = NoFilter
    \/ /\ f.field = "source"
       /\ m.hasMeta
       /\ m.source.k = "str"
       /\ m.source.v = f.eq

Take(s, n) == SubSeq(s, 1, IF n < Len(s) THEN n ELSE Len(s))

\* the index service: at most k of the matches that satisfy the filter, in
\* the order the service ranks them
IndexQuery(data, f, k) == Take(SelectSeq(data, LAMBDA m : Satisfies(m, f)), k)

\* a variant that leaves top_k at the default of the signature (line 63)
QueryTopKMutant(k) == DefaultTopK

\* the top_k search_vectors hands to index.query (line 75)
QueryTopK(k) == k

\* a variant that returns the matches in reverse order
ReturnedMutant(ms) == [i \in 1..Len(ms) |-> ms[Len(ms) + 1 - i]]

\* what search_vectors makes of the matches of the response (line 80)
Returned(ms) == ms

\* search_vectors (lines 63-80), once the embedding is there and the query
\* call has answered; hasKey: the response has a "matches" entry
search_vectors(data, c, k, hasKey) ==
    IF hasKey THEN Returned(IndexQuery(data, FilterExpr(c), QueryTopK(k))) ELSE <<>>

----------------------------------------------------------------------------
(* init_pinecone: the readiness poll                                       *)

\* the listing the service returns at the j-th call of a run
Listing(j) ==
    IF appearAt > 0 /\ j >= appearAt THEN {INDEX_NAME, "other-index"}
    ELSE {"other-index"}

\* a variant that looks for another name
IndexListedMutant(indexes) == "career-navigator" \in indexes

\* `"career-navigator-index" in indexes` (line 39)
IndexListed(indexes) == INDEX_NAME \in indexes

\* a variant with the operands of the subtraction swapped
TimedOutMutant(t, st) == st - t > timeout_seconds

\* `time.time() - start_time > timeout_seconds` (lines 42, 47)
TimedOut(t, st) == t - st > timeout_seconds

\* a variant that keeps the first error of the loop
SurfacedErrorMutant(e, first) == first

\* the exception whose text line 48 shows: e of the except clause, the one
\* the listing call of this iteration raised
SurfacedError(e, first) == e

\* a variant without the decorator
MemoisedMutant(c, key) == FALSE

\* st.cache_resource (line 26): the call is skipped when a result is memoised
Memoised(c, key) == key \in c

\* st.cache_resource memoises a result when the function returns
CacheOnReturn(c, key) == c \cup {key}

\* a variant that memoises the call whatever its end
CacheOnStopMutant(c, key) == c \cup {key}

\* st.stop() raises StopException, a BaseException that none of the
\* `except Exception` clauses (lines 46, 52, 138) catches: the run ends there
\* and nothing is memoised
CacheOnStop(c, key) == c

ResetRun ==
    /\ category' = "all"
    /\ top_k' = DefaultTopK
    /\ now' = 0
    /\ start_time' = 0
    /\ listCalls' = 0
    /\ embedCalls' = 0
    /\ queryCalls' = 0
    /\ lastResp' = "none"
    /\ firstErr' = "none"
    /\ matches' = <<>>
    /\ delivered' = <<>>
    /\ errText' = "none"

\* the remote service, as the run will find it: the index is visible from the
\* appearAt-th listing call on, or never
ServiceState == appearAt' \in 0..MaxAppear

\* Search pressed with a blank query (lines 100, 104-107)
ClickBlank ==
    /\ pc = "idle"
    /\ query' \in Queries
    /\ IsBlank(query')
    /\ ResetRun
    /\ wasCached' = FALSE
    /\ outcome' = "InvalidQuery"
    /\ UNCHANGED <<pc, cache, appearAt, indexData, everListed>>

\* load_api_key raises EnvironmentError, main's except shows it (lines 14-15, 138-139)
ClickNoKey ==
    /\ pc = "idle"
    /\ query' \in Queries
    /\ ~IsBlank(query')
    /\ ResetRun
    /\ wasCached' = FALSE
    /\ outcome' = "MissingCredential"
    /\ UNCHANGED <<pc, cache, appearAt, indexData, everListed>>

\* init_pinecone is memoised for the key: its body does not run (lines 26, 115)
ClickCached ==
    /\ pc = "idle"
    /\ query' \in Queries
    /\ ~IsBlank(query')
    /\ Memoised(cache, API_KEY)
    /\ ServiceState
    /\ ResetRun
    /\ wasCached' = (API_KEY \in cache)
    /\ outcome' = "none"
    /\ pc' = "ready"
    /\ UNCHANGED <<cache, indexData, everListed>>

\* init_pinecone is not memoised: its body runs (line 115)
ClickFresh ==
    /\ pc = "idle"
    /\ query' \in Queries
    /\ ~IsBlank(query')
    /\ ~Memoised(cache, API_KEY)
    /\ ServiceState
    /\ ResetRun
    /\ wasCached' = (API_KEY \in cache)
    /\ outcome' = "none"
    /\ pc' = "init"
    /\ UNCHANGED <<cache, indexData, everListed>>

\* pinecone.init returns; start_time is taken (lines 29-35)
InitClient ==
    /\ pc = "init"
    /\ \E d \in 0..MaxLatency : now' = now + d
    /\ start_time' = now'
    /\ pc' = "poll"
    /\ UNCHANGED <<cache, query, category, top_k, appearAt, indexData,
                   listCalls, embedCalls, queryCalls, lastResp, firstErr,
                   everListed, wasCached, matches, delivered, outcome, errText>>

\* pinecone.init raises: the outer except shows it and stops the run (lines 52-54)
InitClientRaises ==
    /\ pc = "init"
    /\ \E e \in ErrIds : errText' = e
    /\ outcome' = "ConnectionFailure"
    /\ cache' = CacheOnStop(cache, API_KEY)
    /\ pc' = "idle"
    /\ UNCHANGED <<query, category, top_k, now, start_time, appearAt, indexData,
                   listCalls, embedCalls, queryCalls, lastResp, firstErr,
                   everListed, wasCached, matches, delivered>>

\* what the model records of a listing
Seen(indexes) == IF INDEX_NAME \in indexes THEN "listed" ELSE "unlisted"

\* one iteration of the loop: the listing has the index, break (lines 38-40)
PollListed ==
    /\ pc = "poll"
    /\ \E d \in 0..MaxLatency : now' = now + d
    /\ listCalls' = listCalls + 1
    /\ IndexListed(Listing(listCalls'))
    /\ lastResp' = Seen(Listing(listCalls'))
    /\ everListed' = (everListed \/ INDEX_NAME \in Listing(listCalls'))
    /\ pc' = "break"
    /\ UNCHANGED <<cache, query, category, top_k, start_time, appearAt, indexData,
                   embedCalls, queryCalls, firstErr, wasCached, matches,
                   delivered, outcome, errText>>

\* init_pinecone returns and st.cache_resource memoises the result (lines 26, 40);
\* its frame is gone and the clock is not read again in the run
ReturnReady ==
    /\ pc = "break"
    /\ cache' = CacheOnReturn(cache, API_KEY)
    /\ now' = 0
    /\ start_time' = 0
    /\ lastResp' = "none"
    /\ firstErr' = "none"
    /\ pc' = "ready"
    /\ UNCHANGED <<query, category, top_k, appearAt, indexData, listCalls,
                   embedCalls, queryCalls, everListed, wasCached, matches,
                   delivered, outcome, errText>>

\* one iteration of the loop: the listing lacks the index (lines 38-45)
PollNotListed ==
    /\ pc = "poll"
    /\ listCalls' = listCalls + 1
    /\ ~IndexListed(Listing(listCalls'))
    /\ lastResp' = Seen(Listing(listCalls'))
    /\ everListed' = (everListed \/ INDEX_NAME \in Listing(listCalls'))
    /\ \E d \in 0..MaxLatency :
          IF TimedOut(now + d, start_time)
          THEN /\ now' = now + d
               /\ outcome' = "ReadinessTimeout"
               /\ errText' = "does not exist after timeout"
               /\ cache' = CacheOnStop(cache, API_KEY)
               /\ pc' = "idle"
          ELSE /\ now' = now + d + SleepSeconds
               /\ UNCHANGED <<outcome, errText, cache, pc>>
    /\ UNCHANGED <<query, category, top_k, start_time, appearAt, indexData,
                   embedCalls, queryCalls, firstErr, wasCached, matches, delivered>>

\* one iteration of the loop: the listing call raises (lines 38, 46-50)
PollRaises ==
    /\ pc = "poll"
    /\ listCalls' = listCalls + 1
    /\ \E e \in ErrIds :
          /\ lastResp' = e
          /\ firstErr' = IF firstErr = "none" THEN e ELSE firstErr
          /\ \E d \in 0..MaxLatency :
                IF TimedOut(now + d, start_time)
                THEN /\ now' = now + d
                     /\ outcome' = "ConnectionFailure"
                     /\ errText' = SurfacedError(e, firstErr')
                     /\ cache' = CacheOnStop(cache, API_KEY)
                     /\ pc' = "idle"
                ELSE /\ now' = now + d + SleepSeconds
                     /\ UNCHANGED <<outcome, errText, cache, pc>>
    /\ UNCHANGED <<query, category, top_k, start_time, appearAt, indexData,
                   embedCalls, queryCalls, everListed, wasCached, matches, delivered>>

----------------------------------------------------------------------------
(* main: search, format, render (lines 118-139)                            *)

\* results = [format_result(m) for m in matches] (line 122), when no call raises
Results(ms) == [i \in 1..Len(ms) |-> format_result(ms[i])]

AnyFormatRaises(ms) == \E i \in 1..Len(ms) : FormatRaises(ms[i])

\* the values of the radio and the slider (lines 101-102): read when the run
\* starts, drawn here, where search_vectors is called with them (line 121)
Widgets ==
    /\ category' \in Categories
    /\ top_k' \in MinTopK..MaxTopK

\* model.feature_extraction raises (line 64), main's except shows it (lines 138-139)
SearchEmbedRaises ==
    /\ pc = "ready"
    /\ Widgets
    /\ embedCalls' = embedCalls + 1
    /\ outcome' = "EmbeddingFailure"
    /\ errText' = "feature_extraction"
    /\ pc' = "idle"
    /\ UNCHANGED <<cache, query, now, start_time, appearAt,
                   indexData, listCalls, queryCalls, lastResp, firstErr,
                   everListed, wasCached, matches, delivered>>

\* index.query raises (lines 73-78), main's except shows it (lines 138-139)
SearchQueryRaises ==
    /\ pc = "ready"
    /\ Widgets
    /\ embedCalls' = embedCalls + 1
    /\ queryCalls' = queryCalls + 1
    /\ outcome' = "SearchFailure"
    /\ errText' = "query"
    /\ pc' = "idle"
    /\ UNCHANGED <<cache, query, now, start_time, appearAt,
                   indexData, listCalls, lastResp, firstErr, everListed,
                   wasCached, matches, delivered>>

\* both calls answer: the matches are formatted and rendered (lines 121-136)
SearchAnswered ==
    /\ pc = "ready"
    /\ Widgets
    /\ embedCalls' = embedCalls + 1
    /\ queryCalls' = queryCalls + 1
    /\ \E hasKey \in BOOLEAN :
          matches' = search_vectors(indexData, category', top_k', hasKey)
    /\ IF AnyFormatRaises(matches')
       THEN /\ delivered' = <<>>
            /\ outcome' = "Error"
            /\ errText' = "format_result"
       ELSE IF Results(matches') = <<>>
       THEN /\ delivered' = <<>>
            /\ outcome' = "NoResults"
            /\ errText' = "none"
       ELSE /\ delivered' = RenderedPrefix(Results(matches'))
            /\ outcome' = IF delivered' = Results(matches') THEN "Ok" ELSE "Error"
            /\ errText' = IF delivered' = Results(matches') THEN "none" ELSE "render"
    /\ pc' = "idle"
    /\ UNCHANGED <<cache, query, now, start_time, appearAt,
                   indexData, listCalls, lastResp, firstErr, everListed, wasCached>>

----------------------------------------------------------------------------
(* Specifications                                                          *)

\* the spec's end-to-end scenario: two "job" matches scored 0.91 and 0.75
ScenarioData ==
    << RawMatch(Score(910000), TRUE, Str("A"), Str(JOB), Str("t1")),
       RawMatch(Score(750000), TRUE, Str("B"), Str(JOB), Str("t2")) >>

InitRun ==
    /\ pc = "idle"
    /\ query = <<>>
    /\ category = "all"
    /\ top_k = DefaultTopK
    /\ now = 0
    /\ start_time = 0
    /\ appearAt = 0
    /\ listCalls = 0
    /\ embedCalls = 0
    /\ queryCalls = 0
    /\ lastResp = "none"
    /\ firstErr = "none"
    /\ wasCached = FALSE
    /\ matches = <<>>
    /\ delivered = <<>>
    /\ outcome = "none"
    /\ errText = "none"

\* a fresh process: nothing memoised
Init ==
    /\ InitRun
    /\ cache = {}
    /\ everListed = FALSE
    /\ indexData = ScenarioData

Click == ClickBlank \/ ClickNoKey \/ ClickCached \/ ClickFresh

Run ==
    \/ InitClient
    \/ InitClientRaises
    \/ PollListed
    \/ ReturnReady
    \/ PollNotListed
    \/ PollRaises
    \/ SearchEmbedRaises
    \/ SearchQueryRaises
    \/ SearchAnswered

Next == Click \/ Run

Spec == Init /\ [][Next]_vars

\* a script run, once started, keeps executing
FairSpec == Spec /\ WF_vars(Run)

\* a process whose index is already confirmed, over any contents of the index
InitSearch ==
    /\ InitRun
    /\ cache = {API_KEY}
    /\ everListed = TRUE
    /\ indexData \in SeqsUpTo(RawMatches, MaxMatches)

NextSearch ==
    \/ ClickBlank
    \/ ClickNoKey
    \/ ClickCached
    \/ SearchEmbedRaises
    \/ SearchQueryRaises
    \/ SearchAnswered

SearchSpec == InitSearch /\ [][NextSearch]_vars

----------------------------------------------------------------------------
(* Claims                                                                  *)

Elapsed == now - start_time

ReadyFailures == {"ReadinessTimeout", "ConnectionFailure"}

\* the timeout is larger than k poll intervals, however long the listing calls take
WithinTimeout(k) == k * (SleepSeconds + MaxLatency) < timeout_seconds

\* C1: when the listing calls of a run raise nothing and the index is listed
\* from the k-th call on, with the timeout larger than k poll intervals,
\* init_pinecone polls until the k-th call, leaves the loop right after it
\* having made exactly k listing calls, and does not end in a failure.
C1_ReadyAtKthListing ==
    (firstErr = "none" /\ appearAt >= 1 /\ WithinTimeout(appearAt)) =>
        /\ pc = "poll" => (listCalls < appearAt /\ lastResp /= "listed")
        /\ pc = "break" =>
              (listCalls = appearAt /\ lastResp = "listed" /\ outcome = "none")
        /\ (pc = "idle" /\ listCalls > 0) => outcome \notin ReadyFailures
        /\ (pc = "ready" /\ ~wasCached) => (listCalls >= appearAt /\ everListed)

\* the spec's scenario: the index is listed at the 4th call, 4 calls were made
C1_Witness ==
    /\ pc = "break"
    /\ firstErr = "none"
    /\ appearAt = 4
    /\ listCalls = 4
    /\ WithinTimeout(appearAt)

\* C2: an error of a listing call raised before the timeout has passed is not
\* shown: the loop sleeps an interval and polls again.  The run ends in
\* ConnectionFailure after a listing call only when that call raised with the
\* timeout passed, and the text shown is the error of that call; a run that
\* ends right after a listing call raised never ends in ReadinessTimeout.
C2_LastErrorSurfaced ==
    /\ (pc = "poll" /\ lastResp \in ErrIds) =>
          /\ outcome = "none"
          /\ errText = "none"
          /\ Elapsed >= listCalls * SleepSeconds
          /\ Elapsed <= timeout_seconds + SleepSeconds
    /\ (outcome = "ConnectionFailure" /\ listCalls > 0) =>
          /\ lastResp \in ErrIds
          /\ errText = lastResp
          /\ Elapsed > timeout_seconds
    /\ (pc = "idle" /\ lastResp \in ErrIds) =>
          (outcome = "ConnectionFailure" /\ Elapsed > timeout_seconds)

\* the run gave up on an error that is not the first one it swallowed
C2_Witness ==
    /\ outcome = "ConnectionFailure"
    /\ listCalls > 1
    /\ firstErr \in ErrIds
    /\ lastResp \in ErrIds
    /\ firstErr /= lastResp
    /\ errText = lastResp

\* the safety part of C3: when every listing call of a run answers without the index, the loop
\* sleeps one interval between two polls, is still polling only while the
\* timeout had not passed at the poll before, and ends: at the first poll
\* that finds the timeout passed, in ReadinessTimeout, with nothing memoised
\* and no embedding or query call made.
C3_Safety ==
    /\ pc = "poll" =>
          /\ Elapsed >= listCalls * SleepSeconds
          /\ Elapsed <= timeout_seconds + SleepSeconds
    /\ (appearAt = 0 /\ firstErr = "none" /\ listCalls > 0 /\ pc /= "poll") =>
          /\ pc = "idle"
          /\ outcome = "ReadinessTimeout"
          /\ lastResp = "unlisted"
          /\ Elapsed > timeout_seconds
          /\ Elapsed <= timeout_seconds + SleepSeconds + MaxLatency
          /\ Elapsed >= (listCalls - 1) * SleepSeconds
          /\ API_KEY \notin cache
          /\ embedCalls = 0
          /\ queryCalls = 0

\* C3, with its end: C3_Safety in every state, and a poll that never sees the
\* index leads to the end of the run in ReadinessTimeout or ConnectionFailure.
C3_TimeoutEndsThePoll ==
    /\ []C3_Safety
    /\ (pc = "poll" /\ appearAt = 0) ~> (pc = "idle" /\ outcome \in ReadyFailures)

C3_Witness ==
    /\ appearAt = 0
    /\ firstErr = "none"
    /\ outcome = "ReadinessTimeout"
    /\ Elapsed = timeout_seconds + 1
    /\ listCalls > 1

\* C4: index.query is called only after a listing call has returned a
\* listing with the index in it, in this run or an earlier one; a run whose
\* init_pinecone ends in ReadinessTimeout or ConnectionFailure makes neither
\* the embedding call nor the index query.
C4_QueryOnlyAfterListed ==
    /\ queryCalls > 0 => everListed
    /\ pc = "ready" => everListed
    /\ outcome \in ReadyFailures => (embedCalls = 0 /\ queryCalls = 0 /\ pc = "idle")

\* a query made by a later run, which did not poll
C4_Witness ==
    /\ queryCalls = 1
    /\ wasCached
    /\ listCalls = 0
    /\ everListed

\* C5: a run whose query is blank after strip() ends in InvalidQuery with no
\* record, and makes no embedding, listing or query call.
C5_BlankQueryNoCall ==
    /\ Strip(query) = <<>> =>
          /\ pc = "idle"
          /\ outcome \in {"none", "InvalidQuery"}
    /\ outcome = "InvalidQuery" =>
          /\ Strip(query) = <<>>
          /\ embedCalls = 0
          /\ listCalls = 0
          /\ queryCalls = 0
          /\ matches = <<>>
          /\ delivered = <<>>

\* a whitespace-only query rejected in a process whose index is confirmed
C5_Witness ==
    /\ outcome = "InvalidQuery"
    /\ query /= <<>>
    /\ API_KEY \in cache

\* C9: once init_pinecone has returned for the key, a later run's call of it
\* makes no listing call (at most one), does not enter the poll loop and does
\* not fail, whatever the service would list by then.
C9_ReadyOnceReadyAlways ==
    wasCached =>
        /\ pc \in {"ready", "idle"}
        /\ listCalls = 0
        /\ outcome \notin ReadyFailures
        /\ outcome /= "none" => embedCalls = 1

\* a later run is past init_pinecone though the service would not list the index
C9_Witness ==
    /\ wasCached
    /\ pc = "ready"
    /\ appearAt = 0
    /\ listCalls = 0

\* the response of the index service to the query of the run
Response == IndexQuery(indexData, FilterExpr(category), top_k)

\* both calls of search_vectors have answered
Answered == pc = "idle" /\ queryCalls = 1 /\ outcome /= "SearchFailure"

ScoreOf(m) == IF m.score.has THEN m.score.v ELSE 0

SortedDescending(ms) ==
    \A i, j \in 1..Len(ms) : i < j => ScoreOf(ms[i]) >= ScoreOf(ms[j])

RECURSIVE InsertByScore(_, _)
\* m put behind every match of the sorted ms whose score is not below its own
InsertByScore(ms, m) ==
    IF ms = <<>> THEN <<m>>
    ELSE IF ScoreOf(Head(ms)) >= ScoreOf(m)
         THEN <<Head(ms)>> \o InsertByScore(Tail(ms), m)
         ELSE <<m>> \o ms

RECURSIVE StableSortDescending(_)
StableSortDescending(ms) ==
    IF ms = <<>> THEN <<>>
    ELSE InsertByScore(StableSortDescending(SubSeq(ms, 1, Len(ms) - 1)), ms[Len(ms)])

\* C6: with a limit n in 1..10, search_vectors returns at most n matches and
\* the run shows at most n records.
C6_AtMostLimit ==
    /\ top_k \in MinTopK..MaxTopK
    /\ Len(matches) <= top_k
    /\ Len(delivered) <= top_k

\* the limit cuts the answer: the index holds more matches than asked for
C6_Witness ==
    /\ outcome = "Ok"
    /\ Len(delivered) = top_k
    /\ category = "all"
    /\ Len(indexData) > top_k

\* C7 as stated: whatever the order of the response, search_vectors returns
\* its matches in descending order of score, equal scores in the order of the
\* response.
C7_StableSortedByScore ==
    (Answered /\ matches /= <<>>) => matches = StableSortDescending(Response)

\* C7 as amended: search_vectors returns the matches of the response in the
\* order of the response, not sorted again (none when the response has no
\* "matches" entry); they are in descending order of score, equal scores in
\* the order of the response, whenever the response is.
C7_OrderOfTheResponse ==
    Answered =>
        /\ matches \in {Response, <<>>}
        /\ SortedDescending(Response) => matches \in {StableSortDescending(Response), <<>>}

\* a response in ascending order of score, returned as it came
C7_Witness ==
    /\ Answered
    /\ Len(matches) = 2
    /\ ScoreOf(matches[1]) < ScoreOf(matches[2])
    /\ matches = Response

\* C8: a run ends either with every record of its matches shown, in order,
\* and no error, or with an error and no record shown.
C8_AllOrNothing ==
    (pc = "idle" /\ outcome /= "none") =>
        \/ /\ outcome \in {"Ok", "NoResults"}
           /\ errText = "none"
           /\ ~AnyFormatRaises(matches)
           /\ delivered = Results(matches)
        \/ /\ outcome \notin {"Ok", "NoResults"}
           /\ delivered = <<>>

\* the RawMatch values C10 is about: metadata absent or a mapping whose label,
\* source and text are absent, a string or a number; score absent or a number
InFormatDomain(m) ==
    /\ m.label.k \in {"absent", "str", "num"}
    /\ m.source.k \in {"absent", "str", "num"}
    /\ m.text.k \in {"absent", "str", "num"}
    /\ m.score.v \in Int

\* C10: format_result raises for no such RawMatch, and fills the defaults:
\* label "Unknown", source "", text "", score 0.0; a source that is there
\* comes back upper-cased.
C10_FormatTotal ==
    /\ errText /= "format_result"
    /\ \A i \in 1..Len(matches) :
          LET m == matches[i]
              r == format_result(m)
          IN  InFormatDomain(m) =>
                /\ ~FormatRaises(m)
                /\ Meta(m).label.k = "absent" => r.label = Str("Unknown")
                /\ Meta(m).source.k = "absent" => r.source = Str(<<>>)
                /\ Meta(m).text.k = "absent" => r.text = Str("")
                /\ ~m.score.has => r.score = 0
                /\ Meta(m).source.k = "str" => r.source = Str(Upper(m.source.v))

====
